---- MODULE Spec2Model ----
(***************************************************************************)
(* Simulated-annealing Sudoku solver (Sudoku.Recuit/Resources/Recuit.py).  *)
(*                                                                         *)
(* A grid is a function matrix[x][y] of the 0-based row x and column y to  *)
(* digits 0..9, 0 meaning empty; a cell is the pair <<x, y>>.              *)
(*                                                                         *)
(* The temperature is a float in the source.  It is kept here in fixed     *)
(* point, in units of 1/Scale, rounded down, except that a positive value  *)
(* never rounds to zero (the float does not underflow: a temperature too   *)
(* low to accept a worsening move is reheated by 2 long before).  The      *)
(* acceptance draw u of np.random.uniform(1, 0, 1) lies in (0, 1]; it is   *)
(* kept as its negated logarithm -ln(u) >= 0, in units of 1/Scale, so that *)
(* the test u < exp(d / T) is the integer test -(-ln u) * T < d.           *)
(***************************************************************************)
EXTENDS Integers, Sequences, FiniteSets, Bags, TLC

(* ------------------------------ bounds --------------------------------- *)

\* Largest number of cells zeroed in a puzzle drawn by Init.
MaxEmpty == 3

\* Largest number of cells zeroed in a puzzle drawn by LiveInit.
MaxLiveEmpty == 2

\* Largest number of epochs of solve that Spec follows.
MaxEpochs == 3

\* Fixed-point resolution of temperature and of the logarithm of a draw.
Scale == 10

(* ------------------------- program constants --------------------------- *)

\* range(9): block numbers, row numbers and column numbers.
N == 9

\* range(10) of init_temperature: the length of the temperature walk.
WalkLen == 10

\* cooling_rate = 0.99 = CoolingNum / CoolingDen.
CoolingNum == 99

CoolingDen == 100

\* "if reheats > 80".
ReheatLimit == 80

\* "self.temperature += 2".
ReheatBump == 2

\* np.random.uniform(1, 0, 1) is 1 - k / 2^53: its smallest value is 2^-53,
\* whose negated logarithm is 36.7...
MaxDrawLog == 36

(* ----------------------------- geometry -------------------------------- *)

Rng == 0 .. (N - 1)

Cells == Rng \X Rng

\* Mutant of blocks_index: column_start computed like row_start.
blocks_index_diag ==
    [row \in 0 .. 8 |->
        LET row_start == 3 * (row % 3)
            column_start == 3 * (row % 3)
        IN  [n \in 1 .. 9 |->
                <<row_start + ((n - 1) \div 3), column_start + ((n - 1) % 3)>>]]

\* blocks_index(): block "row" lists its 9 cells, x-major.
blocks_index ==
    [row \in Rng |->
        LET row_start == 3 * (row % 3)
            column_start == 3 * (row \div 3)
        IN  [n \in 1 .. 9 |->
                <<row_start + ((n - 1) \div 3), column_start + ((n - 1) % 3)>>]]

BlockCells(b) == {blocks_index[b][n] : n \in 1 .. 9}

\* matrix[c[0]][c[1]] for a cell c of the block table.
At(matrix, c) == matrix[c[1]][c[2]]

(* --------------------------- error function ---------------------------- *)

\* Lines 45-46, 51-52: the sets rows[i] and cols[j] once the scan is over,
\* as the pairs <<i, val>> with val in rows[i], <<j, val>> with val in
\* cols[j].
RowSets(matrix) == {<<i, matrix[i][j]>> : i \in 0 .. 8, j \in 0 .. 8}

ColSets(matrix) == {<<j, matrix[i][j]>> : i \in 0 .. 8, j \in 0 .. 8}

\* Mutant of compute_error: columns are not scanned.
compute_error_rows(matrix) == 81 - Cardinality(RowSets(matrix))

\* compute_error, lines 44-53.  Each of the 81 cells either adds its value
\* to rows[i] or, the value being there already, adds 1 to nb_error: the
\* rows add 81 - sum(len(rows[i])) in all, and so do the columns.
compute_error(matrix) ==
    (81 - Cardinality(RowSets(matrix))) + (81 - Cardinality(ColSets(matrix)))

(* ------------------------- block initializer --------------------------- *)

Perms(S) ==
    {f \in [1 .. Cardinality(S) -> S] :
        \A i, j \in 1 .. Cardinality(S) : i # j => f[i] # f[j]}

\* The numbers of S in increasing order.
SortedSeq(S) ==
    [i \in 1 .. Cardinality(S) |->
        CHOOSE x \in S : Cardinality({y \in S : y < x}) = i - 1]

\* The digits the original puzzle fixes in a block.
FixedVals(sudoku, blocks) ==
    {At(sudoku, blocks[n]) : n \in {k \in 1 .. 9 : At(sudoku, blocks[k]) # 0}}

\* Outcomes of np.random.shuffle(np.arange(1, 10)) for one block.  Only the
\* relative order of the digits that survive the filter of lines 63-65
\* reaches the grid, so the outcomes are enumerated up to the places of the
\* digits the filter removes: those come first, the others follow in every
\* order.
ShuffleOutcomes(sudoku, blocks) ==
    LET fixed == FixedVals(sudoku, blocks)
    IN  {SortedSeq(fixed) \o ord : ord \in Perms((1 .. 9) \ fixed)}

\* Mutant of FilterFixed: the candidates are not filtered.
FilterFixed_none(sudoku, blocks, L) == L

\* Mutant of FilterFixed: L = L[L > v] for every pre-filled v of the block.
FilterFixed_above(sudoku, blocks, L) ==
    SelectSeq(L, LAMBDA v : \A w \in FixedVals(sudoku, blocks) : v > w)

\* Lines 63-65: L = L[L != v] for every pre-filled v of the block.
FilterFixed(sudoku, blocks, L) ==
    SelectSeq(L, LAMBDA v : v \notin FixedVals(sudoku, blocks))

\* Lines 67-70: the k-th cell of the block that is 0 takes the k-th
\* remaining candidate, if there is one.
FillBlockCells(result_, blocks, L) ==
    [x \in Rng |-> [y \in Rng |->
        IF \E n \in 1 .. 9 : blocks[n] = <<x, y>>
        THEN LET n == CHOOSE m \in 1 .. 9 : blocks[m] = <<x, y>>
                 k == Cardinality({m \in 1 .. n : At(result_, blocks[m]) = 0})
             IN  IF result_[x][y] = 0 /\ k <= Len(L) THEN L[k] ELSE result_[x][y]
        ELSE result_[x][y]]]

\* One iteration of "for blocks in self.index" of random_matrix.
random_matrix_block(sudoku, result_, blocks, L) ==
    FillBlockCells(result_, blocks, FilterFixed(sudoku, blocks, L))

(* ------------------------- neighbor generator -------------------------- *)

\* Mutant of cells_available: every cell of the block is available.
cells_available_all(block, pre_filled) == blocks_index[block]

\* Lines 80-83: the cells of the block that are not pre-filled, in order.
cells_available(block, pre_filled) ==
    SelectSeq(blocks_index[block], LAMBDA b : b \notin pre_filled)

\* Mutant of SwapCells: cell1 takes cell2's value, cell2 keeps its own.
SwapCells_copy(g, c1, c2) ==
    [x \in Rng |-> [y \in Rng |->
        IF <<x, y>> = c1 THEN g[c2[1]][c2[2]] ELSE g[x][y]]]

\* Lines 88-91: exchange the values of two cells.
SwapCells(g, c1, c2) ==
    [x \in Rng |-> [y \in Rng |->
        IF <<x, y>> = c1 THEN At(g, c2)
        ELSE IF <<x, y>> = c2 THEN At(g, c1)
        ELSE g[x][y]]]

\* Mutant of count_zero: the cells that are not 0 are counted.
count_nonzero(sudoku) ==
    Cardinality({c \in (0 .. 8) \X (0 .. 8) : sudoku[c[1]][c[2]] # 0})

\* Line 35: np.count_nonzero(grid == 0).
count_zero(sudoku) == Cardinality({c \in Cells : At(sudoku, c) = 0})

(* ------------------------------ numbers -------------------------------- *)

\* a / b in fixed point, for a >= 0: rounded down, but not to zero.
FixDiv(a, b) == IF a = 0 THEN 0 ELSE IF a \div b = 0 THEN 1 ELSE a \div b

\* f[1] + ... + f[n].
RECURSIVE SumTo(_, _)
SumTo(f, n) == IF n = 0 THEN 0 ELSE f[n] + SumTo(f, n - 1)

\* The sum of the scores of the bag.
BagSum(B) ==
    LET d == SortedSeq(DOMAIN B)
    IN  SumTo([i \in 1 .. Len(d) |-> d[i] * B[d[i]]], Len(d))

\* The sum of their squares.
BagSumSq(B) ==
    LET d == SortedSeq(DOMAIN B)
    IN  SumTo([i \in 1 .. Len(d) |-> d[i] * d[i] * B[d[i]]], Len(d))

\* sqrt(q) / n in units of 1/Scale, for q > 0 and a result of at most top:
\* the largest t with (t * n)^2 <= q * Scale^2, and 1 if that is 0.
ScaledRoot(q, n, top) ==
    LET t == CHOOSE u \in 0 .. (top * Scale) :
                /\ (u * n) * (u * n) <= q * Scale * Scale
                /\ q * Scale * Scale < ((u + 1) * n) * ((u + 1) * n)
    IN  IF t = 0 THEN 1 ELSE t

\* np.std(sudoku_list): the population standard deviation
\* sqrt(n * sum(s^2) - sum(s)^2) / n, which is at most the largest score.
Std(B) ==
    LET n == BagCardinality(B)
        q == n * BagSumSq(B) - BagSum(B) * BagSum(B)
        top == CHOOSE x \in DOMAIN B : \A y \in DOMAIN B : y <= x
    IN  IF n = 0 \/ q = 0 THEN 0 ELSE ScaledRoot(q, n, top)

(* ------------------------------ inputs --------------------------------- *)

\* A valid complete Sudoku.
Solution ==
    [x \in Rng |-> [y \in Rng |-> ((3 * (x % 3) + (x \div 3) + y) % 9) + 1]]

\* A complete grid whose blocks are all permutations of 1..9 and whose rows
\* and columns repeat digits: every block is 1 2 3 / 4 5 6 / 7 8 9.
Stacked == [x \in Rng |-> [y \in Rng |-> 3 * (x % 3) + (y % 3) + 1]]

\* Solution with the 3 of block 0 replaced by a second 6: a grid whose
\* block 0 repeats a digit.
Repeated ==
    [x \in Rng |-> [y \in Rng |->
        IF <<x, y>> = <<0, 2>> THEN Solution[1][2] ELSE Solution[x][y]]]

\* The cells a puzzle of Init may have zeroed: two of block 0, in one row,
\* and two of block 4, in different rows and columns.
HoleCells == {<<0, 0>>, <<0, 1>>, <<4, 4>>, <<5, 5>>}

\* Those of block 0.
HoleCells0 == {<<0, 0>>, <<0, 1>>}

Zeroed(base, holes) ==
    [x \in Rng |-> [y \in Rng |-> IF <<x, y>> \in holes THEN 0 ELSE base[x][y]]]

\* The puzzles of Init: Solution with at most MaxEmpty of HoleCells
\* zeroed, Stacked and Repeated with at most MaxEmpty of HoleCells0 zeroed.
Puzzles ==
    {Zeroed(Solution, holes) :
        holes \in {h \in SUBSET HoleCells : Cardinality(h) <= MaxEmpty}}
    \cup
    {Zeroed(base, holes) :
        base \in {Stacked, Repeated},
        holes \in {h \in SUBSET HoleCells0 : Cardinality(h) <= MaxEmpty}}

\* The acceptance draws enumerated, as -ln(u) in units of 1/Scale:
\* u = 1.0, u = 1/e and the smallest draw.
Draws == {0, Scale, MaxDrawLog * Scale}

(* ------------------------------- state --------------------------------- *)

VARIABLES
    basic_grid,          \* self.basic_grid: the original puzzle
    result,              \* random_matrix's result
    blk,                 \* random_matrix: number of blocks filled so far
    grid,                \* self.grid: the working grid
    grid_score,          \* self.grid_score
    pre_filled_indexes,  \* self.pre_filled_indexes
    sudoku_list,         \* init_temperature's list of scores, as a bag
    walk,                \* init_temperature: steps of the walk done
    temperature,         \* self.temperature, in units of 1/Scale
    limit,               \* self.limit
    reheats,             \* solve's reheats
    previousScore,       \* solve's previousScore
    it,                  \* solve: iterations of the inner loop done
    neighbor,            \* the grid last returned by neighbor_sudoku
    neighbor_score,      \* its score
    cells,               \* <<cell1, cell2>> of that call, <<>> if none drawn
    accepted,            \* whether the last inner iteration took line 120
    epochs,              \* epochs of solve started (counted under Spec only)
    pc

vars == <<basic_grid, result, blk, grid, grid_score, pre_filled_indexes,
          sudoku_list, walk, temperature, limit, reheats, previousScore, it,
          neighbor, neighbor_score, cells, accepted, epochs, pc>>

\* Solver.__init__ entered (lines 28-29) and random_matrix at line 59.
Init ==
    /\ basic_grid \in Puzzles
    /\ result = basic_grid
    /\ blk = 0
    /\ grid = basic_grid
    /\ grid_score = 0
    /\ pre_filled_indexes = {}
    /\ sudoku_list = EmptyBag
    /\ walk = 0
    /\ temperature = 0
    /\ limit = 0
    /\ reheats = 0
    /\ previousScore = 0
    /\ it = 0
    /\ neighbor = basic_grid
    /\ neighbor_score = 0
    /\ cells = <<>>
    /\ accepted = FALSE
    /\ epochs = 0
    /\ pc = "fill"

\* random_matrix, lines 60-70: one block shuffled, filtered and filled.
FillBlock ==
    /\ pc = "fill"
    /\ blk < N
    /\ \E L \in ShuffleOutcomes(basic_grid, blocks_index[blk]) :
          result' = random_matrix_block(basic_grid, result, blocks_index[blk], L)
    /\ blk' = blk + 1
    /\ UNCHANGED <<basic_grid, grid, grid_score, pre_filled_indexes,
                   sudoku_list, walk, temperature, limit, reheats,
                   previousScore, it, neighbor, neighbor_score, cells,
                   accepted, epochs, pc>>

\* random_matrix returns (line 71), its local result becoming self.grid;
\* __init__ lines 30-33; init_temperature line 99.
InitFields ==
    /\ pc = "fill"
    /\ blk = N
    /\ grid' = result
    /\ grid_score' = compute_error(result)
    /\ pre_filled_indexes' = {c \in Cells : At(basic_grid, c) # 0}
    /\ result' = basic_grid
    /\ sudoku_list' = EmptyBag
    /\ walk' = 0
    /\ pc' = "walk"
    /\ UNCHANGED <<basic_grid, blk, temperature, limit, reheats,
                   previousScore, it, neighbor, neighbor_score, cells,
                   accepted, epochs>>

\* neighbor_sudoku, lines 78-93, with random.randint(0, 8) drawing block:
\* sets neighbor' and cells'.
neighbor_sudoku(block) ==
    LET av == cells_available(block, pre_filled_indexes)
    IN  IF Len(av) < 2
        THEN /\ neighbor' = grid
             /\ cells' = <<>>
        ELSE \E i, j \in 1 .. Len(av) :
                /\ i # j
                /\ cells' = <<av[i], av[j]>>
                /\ neighbor' = SwapCells(grid, av[i], av[j])

\* Mutant of WalkStep: a neighbor that scores worse is not adopted.
WalkStep_greedy ==
    /\ pc = "walk"
    /\ walk < WalkLen
    /\ \E block \in Rng : neighbor_sudoku(block)
    /\ neighbor_score' = compute_error(neighbor')
    /\ sudoku_list' = sudoku_list (+) SetToBag({neighbor_score'})
    /\ IF neighbor_score' <= grid_score
       THEN grid' = neighbor' /\ grid_score' = neighbor_score'
       ELSE UNCHANGED <<grid, grid_score>>
    /\ walk' = walk + 1
    /\ UNCHANGED <<basic_grid, result, blk, pre_filled_indexes, temperature,
                   limit, reheats, previousScore, it, accepted, epochs, pc>>

\* init_temperature, lines 100-105: one step of the walk.
WalkStep ==
    /\ pc = "walk"
    /\ walk < WalkLen
    /\ \E block \in Rng : neighbor_sudoku(block)
    /\ neighbor_score' = compute_error(neighbor')
    /\ sudoku_list' = sudoku_list (+) SetToBag({neighbor_score'})
    /\ grid' = neighbor'
    /\ grid_score' = neighbor_score'
    /\ walk' = walk + 1
    /\ UNCHANGED <<basic_grid, result, blk, pre_filled_indexes, temperature,
                   limit, reheats, previousScore, it, accepted, epochs, pc>>

\* init_temperature line 106, where its local sudoku_list is dropped;
\* __init__ lines 34-37.
WalkEnd ==
    /\ pc = "walk"
    /\ walk = WalkLen
    /\ temperature' = Std(sudoku_list)
    /\ sudoku_list' = EmptyBag
    /\ limit' = count_zero(basic_grid)
    /\ pc' = "constructed"
    /\ UNCHANGED <<basic_grid, result, blk, grid, grid_score,
                   pre_filled_indexes, walk, reheats,
                   previousScore, it, neighbor, neighbor_score, cells,
                   accepted, epochs>>

\* solve, line 109.
SolveStart ==
    /\ pc = "constructed"
    /\ reheats' = 0
    /\ pc' = "check"
    /\ UNCHANGED <<basic_grid, result, blk, grid, grid_score,
                   pre_filled_indexes, sudoku_list, walk, temperature, limit,
                   previousScore, it, neighbor, neighbor_score, cells,
                   accepted, epochs>>

\* solve, lines 111-114: the check at the start of an epoch.
EpochCheckBody ==
    /\ pc = "check"
    /\ IF compute_error(grid) = 0
       THEN /\ pc' = "done"
            /\ UNCHANGED <<previousScore, it>>
       ELSE /\ previousScore' = grid_score
            /\ it' = 0
            /\ pc' = "inner"
    /\ UNCHANGED <<basic_grid, result, blk, grid, grid_score,
                   pre_filled_indexes, sudoku_list, walk, temperature, limit,
                   reheats, neighbor, neighbor_score, cells, accepted>>

\* The check of lines 111-114, for the first MaxEpochs epochs.
EpochCheck ==
    /\ epochs < MaxEpochs
    /\ EpochCheckBody
    /\ epochs' = epochs + 1

\* Mutant of Accepts: the comparison is reversed, draw > p.
Accepts_reversed(score, nscore, T, nl) ==
    IF T = 0
    THEN score - nscore < 0
    ELSE (0 - nl) * T > (score - nscore) * Scale * Scale

\* Lines 118-119: draw < np.exp((score - nscore) / T), the draw u given as
\* nl = -ln(u).  With T = 0 the quotient is inf, nan or -inf and the
\* comparison is true for inf alone.
Accepts(score, nscore, T, nl) ==
    IF T = 0
    THEN score - nscore > 0
    ELSE (0 - nl) * T < (score - nscore) * Scale * Scale

\* Mutant of InnerStepIn: the inner loop has no exit test (lines 122-123).
InnerStepIn_noexit(block) ==
    /\ pc = "inner"
    /\ it < limit
    /\ neighbor_sudoku(block)
    /\ neighbor_score' = compute_error(neighbor')
    /\ \E nl \in Draws :
          accepted' = Accepts(grid_score, neighbor_score', temperature, nl)
    /\ IF accepted'
       THEN /\ grid' = neighbor'
            /\ grid_score' = grid_score + (neighbor_score' - grid_score)
       ELSE UNCHANGED <<grid, grid_score>>
    /\ pc' = "inner"
    /\ it' = it + 1
    /\ UNCHANGED <<basic_grid, result, blk, pre_filled_indexes, sudoku_list,
                   walk, temperature, limit, reheats, previousScore, epochs>>

\* Mutant of InnerStepIn: an accepted neighbor replaces the grid and the
\* stored score is left as it was (line 121 missing).
InnerStepIn_stale(block) ==
    /\ pc = "inner"
    /\ it < limit
    /\ neighbor_sudoku(block)
    /\ neighbor_score' = compute_error(neighbor')
    /\ \E nl \in Draws :
          accepted' = Accepts(grid_score, neighbor_score', temperature, nl)
    /\ IF accepted'
       THEN grid' = neighbor'
       ELSE UNCHANGED grid
    /\ grid_score' = grid_score
    /\ IF grid_score' <= 0
       THEN /\ pc' = "done"
            /\ it' = it
       ELSE /\ pc' = "inner"
            /\ it' = it + 1
    /\ UNCHANGED <<basic_grid, result, blk, pre_filled_indexes, sudoku_list,
                   walk, temperature, limit, reheats, previousScore, epochs>>

\* solve, lines 116-123: one iteration of the inner loop, neighbor_sudoku
\* drawing block.
InnerStepIn(block) ==
    /\ pc = "inner"
    /\ it < limit
    /\ neighbor_sudoku(block)
    /\ neighbor_score' = compute_error(neighbor')
    /\ \E nl \in Draws :
          accepted' = Accepts(grid_score, neighbor_score', temperature, nl)
    /\ IF accepted'
       THEN /\ grid' = neighbor'
            /\ grid_score' = grid_score + (neighbor_score' - grid_score)
       ELSE UNCHANGED <<grid, grid_score>>
    /\ IF grid_score' <= 0
       THEN /\ pc' = "done"
            /\ it' = it
       ELSE /\ pc' = "inner"
            /\ it' = it + 1
    /\ UNCHANGED <<basic_grid, result, blk, pre_filled_indexes, sudoku_list,
                   walk, temperature, limit, reheats, previousScore, epochs>>

InnerStep == \E block \in Rng : InnerStepIn(block)

\* Mutant of EpochEnd: the reheat test is reheats >= 80.
EpochEnd_early ==
    /\ pc = "inner"
    /\ it = limit
    /\ LET counted == IF grid_score >= previousScore THEN reheats + 1 ELSE 0
           cooled == FixDiv(temperature * CoolingNum, CoolingDen)
       IN  IF counted >= ReheatLimit
           THEN /\ temperature' = cooled + ReheatBump * Scale
                /\ reheats' = 0
           ELSE /\ temperature' = cooled
                /\ reheats' = counted
    /\ pc' = "check"
    /\ UNCHANGED <<basic_grid, result, blk, grid, grid_score,
                   pre_filled_indexes, sudoku_list, walk, limit,
                   previousScore, it, neighbor, neighbor_score, cells,
                   accepted, epochs>>

\* solve, lines 125-133: the end of an epoch.
EpochEnd ==
    /\ pc = "inner"
    /\ it = limit
    /\ LET counted == IF grid_score >= previousScore THEN reheats + 1 ELSE 0
           cooled == FixDiv(temperature * CoolingNum, CoolingDen)
       IN  IF counted > ReheatLimit
           THEN /\ temperature' = cooled + ReheatBump * Scale
                /\ reheats' = 0
           ELSE /\ temperature' = cooled
                /\ reheats' = counted
    /\ pc' = "check"
    /\ UNCHANGED <<basic_grid, result, blk, grid, grid_score,
                   pre_filled_indexes, sudoku_list, walk, limit,
                   previousScore, it, neighbor, neighbor_score, cells,
                   accepted, epochs>>

Next ==
    \/ FillBlock
    \/ InitFields
    \/ WalkStep
    \/ WalkEnd
    \/ SolveStart
    \/ EpochCheck
    \/ InnerStep
    \/ EpochEnd

Spec == Init /\ [][Next]_vars

(* ---------------------- solve followed to its end ---------------------- *)

\* The check of lines 111-114, for every epoch.
EpochCheckAny ==
    /\ EpochCheckBody
    /\ UNCHANGED epochs

\* The puzzles obtained from Solution by zeroing at most MaxLiveEmpty of
\* HoleCells.
LiveInit ==
    /\ Init
    /\ \E holes \in SUBSET HoleCells :
          /\ Cardinality(holes) <= MaxLiveEmpty
          /\ basic_grid = Zeroed(Solution, holes)

LiveNext ==
    \/ FillBlock
    \/ InitFields
    \/ WalkStep
    \/ WalkEnd
    \/ SolveStart
    \/ EpochCheckAny
    \/ InnerStep
    \/ EpochEnd

\* The program runs on while it can, and random.randint(0, 8) returns every
\* block again and again.
LiveFairness ==
    /\ WF_vars(LiveNext)
    /\ \A block \in Rng : SF_vars(InnerStepIn(block))

LiveSpec == LiveInit /\ [][LiveNext]_vars /\ LiveFairness

(* --------------------------- claim vocabulary -------------------------- *)

Digits == 1 .. 9

PreFilled(sudoku) == {c \in Cells : At(sudoku, c) # 0}

\* g has the original puzzle's value in every pre-filled cell.
KeepsPreFilled(g) ==
    \A c \in PreFilled(basic_grid) : At(g, c) = At(basic_grid, c)

\* The 3x3 region of rows 3a..3a+2 and columns 3b..3b+2.
RegionCells(a, b) == (3 * a .. 3 * a + 2) \X (3 * b .. 3 * b + 2)

\* No digit is pre-filled twice in one block of the puzzle.
NoBlockDuplicate(sudoku) ==
    \A a, b \in 0 .. 2 : \A c, e \in RegionCells(a, b) :
        (c # e /\ At(sudoku, c) # 0) => At(sudoku, c) # At(sudoku, e)

\* The 9 cells of the region hold each digit of 1..9, so each exactly once.
IsPermutation(g, region) == {At(g, c) : c \in region} = Digits

BlocksArePermutations(g) ==
    \A a, b \in 0 .. 2 : IsPermutation(g, RegionCells(a, b))

RowsArePermutations(g) == \A x \in Rng : IsPermutation(g, {x} \X Rng)

ColumnsArePermutations(g) == \A y \in Rng : IsPermutation(g, Rng \X {y})

IsFull(g) == \A c \in Cells : At(g, c) \in Digits

\* No row and no column of g holds two equal entries.
NoRowColumnRepeat(g) ==
    \A x, i, j \in Rng : i < j => (g[x][i] # g[x][j] /\ g[i][x] # g[j][x])

ValidSudoku(g) ==
    /\ IsFull(g)
    /\ RowsArePermutations(g)
    /\ ColumnsArePermutations(g)
    /\ BlocksArePermutations(g)

\* g is a valid Sudoku with the puzzle's pre-filled values.
IsCompletionOf(g, sudoku) ==
    /\ ValidSudoku(g)
    /\ \A c \in PreFilled(sudoku) : At(g, c) = At(sudoku, c)

Constructing == pc = "fill"

(* ------------------------------- claims -------------------------------- *)

\* C1: from construction onward (block filling, the temperature walk, every
\* inner iteration of solve) every cell that is non-zero in the original
\* puzzle holds its original value in the grid being filled and in the
\* working grid, and no pre-filled coordinate is an endpoint of the swap
\* that neighbor_sudoku drew.
C1_PreFilledNeverTouched ==
    /\ KeepsPreFilled(result)
    /\ KeepsPreFilled(grid)
    /\ KeepsPreFilled(neighbor)
    /\ \A k \in DOMAIN cells : At(basic_grid, cells[k]) = 0

\* C1 witness: an inner iteration of solve accepted a real swap on a puzzle
\* with pre-filled cells in the swapped block.
C1_Witness ==
    /\ pc = "inner"
    /\ accepted
    /\ cells # <<>>
    /\ grid = neighbor
    /\ \E c \in PreFilled(basic_grid) : c[1] \div 3 = cells[1][1] \div 3

\* C2: for a puzzle with no digit pre-filled twice in a block, after the
\* block filling every 3x3 block of the working grid holds each of 1..9
\* exactly once, whatever neighbor moves were made.
C2_BlocksStayPermutations ==
    (~Constructing /\ NoBlockDuplicate(basic_grid))
        => BlocksArePermutations(grid)

\* C2 witness: the walk of construction ended with a real swap, on a
\* puzzle with no block duplicate.
C2_Witness ==
    /\ pc = "walk"
    /\ walk = WalkLen
    /\ NoBlockDuplicate(basic_grid)
    /\ cells # <<>>

\* C3: for a puzzle with no digit pre-filled twice in a block, the grid
\* random_matrix returns keeps every pre-filled cell and every block of it
\* holds each of 1..9 exactly once.
C3_RandomMatrixFillsBlocks ==
    (pc = "fill" /\ blk = N /\ NoBlockDuplicate(basic_grid))
        => (KeepsPreFilled(result) /\ BlocksArePermutations(result))

\* C3 witness: random_matrix returned after filling two empty cells of one
\* block.
C3_Witness ==
    /\ blk = N
    /\ pc = "fill"
    /\ NoBlockDuplicate(basic_grid)
    /\ \E c, e \in Cells :
          /\ c # e
          /\ c[1] \div 3 = e[1] \div 3
          /\ c[2] \div 3 = e[2] \div 3
          /\ At(basic_grid, c) = 0
          /\ At(basic_grid, e) = 0
          /\ At(result, c) # 0
          /\ At(result, e) # 0

\* C4: when solve has returned, on a puzzle with no digit pre-filled twice
\* in a block, the returned grid has every cell in 1..9, error 0, every
\* row, column and block a permutation of 1..9, and the puzzle's pre-filled
\* values.
C4_ReturnedGridIsSolution ==
    (pc = "done" /\ NoBlockDuplicate(basic_grid))
        => /\ IsFull(grid)
           /\ compute_error(grid) = 0
           /\ RowsArePermutations(grid)
           /\ ColumnsArePermutations(grid)
           /\ BlocksArePermutations(grid)
           /\ KeepsPreFilled(grid)

\* C4 witness: solve returned from the inner loop (line 123), after an
\* epoch that started with a positive score.
C4_Witness ==
    /\ pc = "done"
    /\ previousScore > 0
    /\ accepted
    /\ cells # <<>>

\* C5: on a fully filled grid compute_error is 0 exactly when no row and no
\* column holds two equal entries; checked on every grid the solver scores.
C5_ErrorZeroIffNoRepeat ==
    /\ IsFull(grid) => (compute_error(grid) = 0 <=> NoRowColumnRepeat(grid))
    /\ IsFull(neighbor) =>
          (compute_error(neighbor) = 0 <=> NoRowColumnRepeat(neighbor))

\* C5 witness: a scored neighbor that is full, repeats a digit in a column
\* and in no row.
C5_Witness ==
    /\ pc = "walk"
    /\ walk > 0
    /\ IsFull(neighbor)
    /\ neighbor_score > 0
    /\ RowsArePermutations(neighbor)

\* C6: blocks_index is 9 blocks of 9 cells, pairwise disjoint, covering the
\* 81 cells, each block the cells of one 3x3 region rows 3a..3a+2, columns
\* 3b..3b+2. Stated over the blocks random_matrix has gone through (those
\* below blk), which are all 9 once the filling is over.
C6_BlocksPartitionGrid ==
    /\ DOMAIN blocks_index = 0 .. 8
    /\ \A b \in 0 .. 8 :
          b < blk
              => /\ DOMAIN blocks_index[b] = 1 .. 9
                 /\ Cardinality(BlockCells(b)) = 9
                 /\ \E r, q \in 0 .. 2 : BlockCells(b) = RegionCells(r, q)
    /\ \A b, d \in 0 .. 8 :
          (b < blk /\ d < blk /\ b # d)
              => BlockCells(b) \cap BlockCells(d) = {}
    /\ blk = N => UNION {BlockCells(b) : b \in 0 .. 8} = Cells

\* C6 witness: random_matrix has gone through the 9 blocks of the table and
\* filled empty cells of two different blocks.
C6_Witness ==
    /\ pc = "fill"
    /\ blk = N
    /\ IsFull(result)
    /\ \E b, d \in 0 .. 8 :
          /\ b # d
          /\ \E c \in BlockCells(b) : At(basic_grid, c) = 0
          /\ \E c \in BlockCells(d) : At(basic_grid, c) = 0

\* The puzzle has exactly one empty cell.
OneHole(sudoku) == Cardinality(Cells \ PreFilled(sudoku)) = 1

\* The puzzle with digit d in its empty cells.
FilledWith(sudoku, d) ==
    [x \in Rng |-> [y \in Rng |-> IF sudoku[x][y] = 0 THEN d ELSE sudoku[x][y]]]

\* An iteration of the inner loop of solve (lines 116-123) is taken.
InnerIteration == pc = "inner" /\ pc' \in {"inner", "done"}

C8_CompleteInputReturnsAtOnce ==
    ValidSudoku(basic_grid)
        => /\ cells = <<>>
           /\ neighbor = basic_grid
           /\ grid = basic_grid
           /\ pc \in {"constructed", "check", "inner", "done"} => limit = 0
           /\ pc # "inner"
           /\ pc = "done" => (epochs = 1 /\ it = 0 /\ grid = basic_grid)

\* C8 witness: solve returned on a complete valid Sudoku.
C8_Witness ==
    /\ ValidSudoku(basic_grid)
    /\ pc = "done"
    /\ walk = WalkLen

\* C9: on a valid Sudoku with exactly one cell zeroed, the working grid is,
\* from the end of the block filling on, the puzzle with the one digit that
\* completes it, and that is the grid solve returns.
C9_OneEmptyCellIsCompleted ==
    \A d \in Digits :
        (OneHole(basic_grid) /\ ValidSudoku(FilledWith(basic_grid, d)))
            => /\ ~Constructing => grid = FilledWith(basic_grid, d)
               /\ pc = "done" => grid = FilledWith(basic_grid, d)

\* C9 witness: solve returned on a valid Sudoku with one cell zeroed.
C9_Witness ==
    /\ OneHole(basic_grid)
    /\ \E d \in Digits : ValidSudoku(FilledWith(basic_grid, d))
    /\ pc = "done"
    /\ At(grid, CHOOSE c \in Cells : At(basic_grid, c) = 0) # 0

\* C10: in every inner iteration of solve a neighbor whose score equals the
\* current score is accepted, whatever the temperature and the draw.
C10_NeutralAlwaysAccepted ==
    [][(InnerIteration /\ neighbor_score' = grid_score) => accepted']_vars

\* Construction is over: __init__ has returned.
Constructed == pc \in {"constructed", "check", "inner", "done"}

\* The end of an epoch of solve (lines 125-133) is taken.
EpochEnds == pc = "inner" /\ pc' = "check"

\* C11: in every inner iteration of solve a neighbor whose score is
\* strictly lower than the current score is accepted, the working grid and
\* score becoming the neighbor's, whatever the temperature and the draw.
C11_ImprovingAlwaysAccepted ==
    [][(InnerIteration /\ neighbor_score' < grid_score)
          => (accepted' /\ grid' = neighbor' /\ grid_score' = neighbor_score')]_vars

\* C11 witness: the first iteration of an epoch generated a swap that
\* lowered the score, and it was accepted.
C11_Witness ==
    /\ \/ pc = "inner" /\ it = 1
       \/ pc = "done" /\ it = 0 /\ previousScore > 0
    /\ cells # <<>>
    /\ accepted
    /\ grid = neighbor
    /\ grid_score = neighbor_score
    /\ grid_score < previousScore

\* C12: the temperature is strictly positive in every state reachable
\* after construction.
C12_TemperaturePositive == Constructed => temperature > 0

WalkIteration == pc = "walk" /\ walk' = walk + 1

\* The cells in which two grids differ.
Diff(g, h) == {c \in Cells : At(g, c) # At(h, c)}

\* C14: the grid neighbor_sudoku returns equals the working grid exactly
\* when the block drawn has fewer than 2 cells that are not pre-filled or
\* the two cells drawn hold equal values; otherwise it differs from the
\* working grid in exactly two cells, not pre-filled, of one block, whose
\* values are exchanged.  Generating it does not change the working grid: a
\* rejected neighbor leaves the grid as it was.
C14_NeighborIsOneSwap ==
    [][(WalkIteration \/ InnerIteration)
          => /\ \E b \in Rng :
                   LET free == BlockCells(b) \ PreFilled(basic_grid)
                   IN  IF Cardinality(free) < 2
                       THEN cells' = <<>> /\ neighbor' = grid
                       ELSE /\ cells' # <<>>
                            /\ cells'[1] # cells'[2]
                            /\ {cells'[1], cells'[2]} \subseteq free
                            /\ (neighbor' = grid)
                                  <=> (At(grid, cells'[1]) = At(grid, cells'[2]))
             /\ \/ Diff(neighbor', grid) = {}
                \/ \E c, e \in Diff(neighbor', grid) :
                      /\ c # e
                      /\ Diff(neighbor', grid) = {c, e}
                      /\ At(neighbor', c) = At(grid, e)
                      /\ At(neighbor', e) = At(grid, c)
                      /\ At(basic_grid, c) = 0
                      /\ At(basic_grid, e) = 0
                      /\ \E a, q \in 0 .. 2 : {c, e} \subseteq RegionCells(a, q)
             /\ (InnerIteration /\ ~accepted') => grid' = grid]_vars

\* C14 witness: an inner iteration generated a neighbor that differs from
\* the working grid in two cells and rejected it.
C14_Witness ==
    /\ pc = "inner"
    /\ it > 0
    /\ ~accepted
    /\ cells # <<>>
    /\ Cardinality(Diff(neighbor, grid)) = 2

\* C15: during solve, once the working grid's score is 0 no neighbor is
\* generated and the grid does not change any more: the inner iteration
\* whose acceptance brings the score to 0 returns at once, the remaining
\* iterations of the epoch not being run, and nothing follows the return.
C15_ReturnsAtScoreZero ==
    /\ [](pc = "inner" => grid_score > 0)
    /\ [][/\ (InnerIteration /\ grid_score' = 0)
             => (pc' = "done" /\ it' = it /\ accepted' /\ grid' = neighbor')
          /\ (pc = "check" /\ grid_score = 0)
             => (pc' = "done" /\ grid' = grid /\ neighbor' = neighbor)
          /\ pc # "done"]_vars

\* C15 witness: solve returned from an inner iteration that was not the
\* last one of its epoch.
C15_Witness ==
    /\ pc = "done"
    /\ previousScore > 0
    /\ accepted
    /\ grid_score = 0
    /\ it + 1 < limit

\* C16: the temperature walk is exactly 10 neighbor moves, each generated
\* from the grid the previous one left and each adopted with its score
\* whatever that score is; when solve starts the working grid and the
\* stored score are those of the 10th move.
C16_WalkLeavesTenthStep ==
    /\ [](/\ walk \in 0 .. WalkLen
          /\ pc \in {"constructed", "check", "inner", "done"} => walk = WalkLen
          /\ ((pc = "walk" /\ walk > 0) \/ pc = "constructed"
                  \/ (pc = "check" /\ epochs = 0))
             => (grid = neighbor /\ grid_score = neighbor_score))
    /\ [][/\ WalkIteration
             => /\ Cardinality(Diff(neighbor', grid)) \in {0, 2}
                /\ grid' = neighbor'
                /\ grid_score' = neighbor_score'
                /\ neighbor_score' = compute_error(neighbor')
          /\ (pc = "walk" /\ pc' # "walk") => (walk = WalkLen /\ grid' = grid)
          /\ pc = "constructed" => (grid' = grid /\ grid_score' = grid_score)]_vars

\* C16 witness: the 10 moves are done, the last one a swap, and the score
\* it left is higher than the score of an earlier move: a worsening move
\* was adopted.
C16_Witness ==
    /\ pc = "walk"
    /\ walk = WalkLen
    /\ cells # <<>>
    /\ grid = neighbor
    /\ \E sc \in DOMAIN sudoku_list : sc < grid_score

\* C17: random_matrix leaves no cell at 0, also when the pre-filled digits
\* of a block repeat, and no grid the program holds afterwards (the working
\* grid, and the neighbor once one has been generated: the arguments of
\* compute_error) contains a 0.
C17_NoZeroAfterFill ==
    /\ (pc = "fill" /\ blk = N) => IsFull(result)
    /\ ~Constructing => IsFull(grid)
    /\ (~Constructing /\ walk > 0) => IsFull(neighbor)

\* C17 witness: a puzzle with a digit pre-filled twice in one block and two
\* empty cells in that block has been filled and walked.
C17_Witness ==
    /\ ~NoBlockDuplicate(basic_grid)
    /\ Cardinality(Cells \ PreFilled(basic_grid)) = 2
    /\ pc = "inner"
    /\ cells # <<>>
    /\ accepted
    /\ IsFull(grid)

\* C18: in every state after the block filling (after each step of the
\* walk, after each accepted or rejected neighbor of solve) the stored
\* score is compute_error of the working grid.
C18_ScoreMatchesGrid ==
    ~Constructing => grid_score = compute_error(grid)

\* C18 witness: a later iteration of an epoch accepted a swap that changed
\* the score without ending the search.
C18_Witness ==
    /\ pc = "inner"
    /\ it >= 2
    /\ accepted
    /\ cells # <<>>
    /\ grid = neighbor
    /\ grid_score # previousScore

====
